---- MODULE Spec2Model ----
(***************************************************************************)
(* Trading-calendar sentiment aggregation of SPA_AI/sentiment:             *)
(*   optimized_sentiment_update.py        (incremental update)             *)
(*   reset_aggregate_sentiment_30days.py  (30-day reconciliation)          *)
(* Calendar dates are integers (one unit = one day).  The store holds one  *)
(* <code>_Stock table (session rows) and one <code>_News table.            *)
(* The per-stock loops of main.py (run_sentiment_phase) are the batch.     *)
(***************************************************************************)
EXTENDS Integers, Sequences, FiniteSets, TLC

\* ---------------------------------------------------------------- bounds
MaxDay == 2
MaxNewsDates == 2
MaxUpdated == 2
MaxChunkDates == 21

\* ------------------------------------------------------ program constants
ActivityThreshold == 50
NewsThreshold == 50
Lookback == 7
WindowDays == 30
Epoch == -400
DailyChunk == 10
AggregatedChunk == 20

\* ------------------------------------------------------------ date sets
WinDates == 0..MaxDay
NoDay == 0 - 1000
\* Older session rows: h consecutive days, the last one HistGap + 1 days
\* before day 0; the first one has its counters in the model.
HistGap == 2 * ActivityThreshold
HistFirst(h) == 0 - HistGap - h
HistDays(h) == {0 - HistGap - i : i \in 1..h}
HistSeq(h) == [i \in 1..h |-> 0 - HistGap - (h + 1 - i)]
\* One news date before every session row: with no older rows, more than
\* Lookback days before day 0; with older rows, two days before the first.
EarlyDate(h) == IF h = 0 THEN 0 - (Lookback + 2) ELSE HistFirst(h) - 2
NewsDates(h) == {EarlyDate(h)} \cup WinDates

Zero == <<0, 0, 0>>
NoTables == [t \in {} |-> [d \in {} |-> Zero]]
Stale == <<2, 2, 2>>
Add(a, b) == <<a[1] + b[1], a[2] + b[2], a[3] + b[3]>>
\* The labeled records a date carries when it carries news: no two sets of
\* dates have the same sum, so a count identifies the dates it was summed from.
BagOf(d) ==
  CASE d < 0 -> <<0, 0, 1>>
    [] d = 0 -> <<1, 0, 0>>
    [] d = 1 -> <<1, 1, 0>>
    [] d = 2 -> <<0, 2, 1>>
    [] d = 3 -> <<0, 0, 3>>
    [] OTHER -> <<d - 1, 0, 0>>

VARIABLES
  stock,      \* <code>_Stock: session date -> <<Positive, Negative, Neutral>>
  closeOk,    \* session dates whose close_price is valid
  hist,       \* number of older session rows
  news,       \* <code>_News: date -> labeled records per label
  unlabeled,  \* <code>_News: records without a sentiment label
  today,      \* datetime.now().date()
  pc, entry, updated, runNo, ret,
  mapping,    \* trading_day_mapping
  resolverLow,\* is_low_activity_stock of get_affected_trading_days
  isLow,      \* is_low_activity of optimized_process_sentiment_to_stock
  todo,       \* rows still to visit in the current loop
  stats,      \* sentiment_stats
  agg,        \* aggregated rows to write
  tdays,      \* trading_days of the 30-day reconciliation
  success,    \* result of the 30-day reconciliation
  resetSet,   \* rows zeroed by the current run
  wrote,      \* rows written with counts by the current run
  snap,       \* the counters as the current run found them
  stock0,     \* the counters before the first run
  stopped,    \* the first run was stopped before it completed
  touched,    \* the current run has queried the store
  countOutcome, \* what the news count query of the current run gave
  phase,      \* run_sentiment_phase: where the batch is
  batchMode,  \* use_30day_aggregate or optimized_update
  pending,    \* stock codes the current loop has still to visit
  stockUpdates, \* stock_updates: code -> it has newly predicted dates
  processed,  \* codes whose run was called
  raised,     \* codes whose run raised
  fetched,    \* all_sentiment_data: the records the chunk queries returned
  tables,     \* two concurrent runs: stock table name -> its counters
  runs        \* two concurrent runs: run -> stock code, entry point, position

vars == <<stock, closeOk, hist, news, unlabeled, today, pc, entry, updated,
          runNo, ret, mapping, resolverLow, isLow, todo, stats, agg, tdays,
          success, resetSet, wrote, snap, stock0, stopped, touched,
          countOutcome, phase, batchMode, pending, stockUpdates, processed,
          raised, fetched, tables, runs>>

batch == <<phase, batchMode, pending, stockUpdates, processed, raised>>
engine == <<stock, closeOk, hist, news, unlabeled, today, pc, entry, updated,
            runNo, ret, mapping, resolverLow, isLow, todo, stats, agg, tdays,
            success, resetSet, wrote, snap, stock0, stopped, touched,
            countOutcome>>

store == <<stock, closeOk, hist, news, unlabeled, today>>
local == <<fetched>>
pair == <<tables, runs>>

\* ------------------------------------------------------------- helpers
RECURSIVE SortedSeq(_)
SortedSeq(S) ==
  IF S = {} THEN <<>>
  ELSE LET m == CHOOSE x \in S : \A y \in S : x <= y
       IN <<m>> \o SortedSeq(S \ {m})

RECURSIVE SumBags(_, _)
SumBags(f, S) ==
  IF S = {} THEN Zero
  ELSE LET d == CHOOSE x \in S : TRUE
       IN Add(f[d], SumBags(f, S \ {d}))

Total(b) == b[1] + b[2] + b[3]
EmptyMap == [d \in {} |-> Zero]

\* ------------------------------------------------------------- the store
NewsAt(d) == IF d \in DOMAIN news THEN news[d] ELSE Zero
LabeledDates == {d \in DOMAIN news : Total(news[d]) > 0}
TotalNews == Total(SumBags(news, DOMAIN news)) + unlabeled

\* select("date").eq("date", d): does a session row exist
RowExists(st, d) == d \in DOMAIN st

\* table(stock_table).update({Positive, Negative, Neutral}).eq("date", d)
UpdateAdds(st, d, v) ==
  IF d \in DOMAIN st THEN [st EXCEPT ![d] = Add(st[d], v)] ELSE st
UpdateCounters(st, d, v) ==
  IF d \in DOMAIN st THEN [st EXCEPT ![d] = v] ELSE st

UpdateInserts(st, d, v) ==
  [x \in DOMAIN st \cup {d} |-> IF x = d THEN v ELSE st[x]]
\* check-then-update: a date without a session row is skipped, never inserted
UpdateIfExists(st, d, v) ==
  IF RowExists(st, d) THEN UpdateCounters(st, d, v) ELSE st

\* ------------------------------------------- get_affected_trading_days
\* select("date").order("date"): every session row, no close_price filter
TradingDaysSet(st, h) == HistDays(h) \cup DOMAIN st
TradingDaysList(st, h) == HistSeq(h) \o SortedSeq(DOMAIN st \ HistDays(h))

RecentDays(list) == {i \in 1..Len(list) : list[i] >= Epoch}
IsLowActivityStock(list) == Cardinality(RecentDays(list)) < ActivityThreshold

RECURSIVE ScanNext(_, _, _)
ScanNext(list, i, d) ==
  IF i > Len(list) THEN NoDay
  ELSE IF list[i] > d THEN list[i]
  ELSE ScanNext(list, i + 1, d)
NextTradingDay(list, d) == ScanNext(list, 1, d)

TargetDaily(list, d) == d
TargetLastLater(list, d) ==
  LET days == {list[i] : i \in 1..Len(list)}
      later == {t \in days : t > d}
  IN IF d \in days THEN d
     ELSE IF later # {} THEN CHOOSE t \in later : \A u \in later : t >= u
     ELSE list[Len(list)]
TargetDropsEarly(list, d) ==
  LET days == {list[i] : i \in 1..Len(list)}
      next == NextTradingDay(list, d)
      latest == list[Len(list)]
  IN IF d \in days THEN d
     ELSE IF d < list[1] THEN NoDay
     ELSE IF next # NoDay THEN next
     ELSE IF d >= latest THEN latest
     ELSE NoDay
TargetActive(list, d) ==
  LET days == {list[i] : i \in 1..Len(list)}
      next == NextTradingDay(list, d)
      latest == list[Len(list)]
  IN IF d \in days THEN d
     ELSE IF next # NoDay THEN next
     ELSE IF d >= latest THEN latest
     ELSE NoDay

BuildMapping(list, dates, low) ==
  LET tgt == [d \in dates |-> IF low THEN TargetDaily(list, d)
                                     ELSE TargetActive(list, d)]
      keys == {tgt[d] : d \in dates} \ {NoDay}
  IN [k \in keys |-> {d \in dates : tgt[d] = k}]

\* the branch get_affected_trading_days takes (lines 55-58)
ResolverLow(st, h) == IsLowActivityStock(TradingDaysList(st, h))

GetAffectedTradingDays(st, h, dates) ==
  LET list == TradingDaysList(st, h)
  IN IF dates = {} \/ Len(list) = 0 THEN [k \in {} |-> {}]
     ELSE BuildMapping(list, dates, IsLowActivityStock(list))

\* ---------------------------------------------- get_daily_sentiment_stats
\* Records fetched per key: labeled news whose date is in the key's list.
DailyFetched(map) ==
  {d \in UNION {map[k] : k \in DOMAIN map} : Total(NewsAt(d)) > 0}
\* line 236: the first key whose list holds the record's date, else the date
KeyOfDate(map, d) ==
  LET ks == {k \in DOMAIN map : d \in map[k]}
  IN IF ks = {} THEN d ELSE CHOOSE k \in ks : \A u \in ks : k <= u
RECURSIVE SumNews(_)
SumNews(S) ==
  IF S = {} THEN Zero
  ELSE LET d == CHOOSE x \in S : TRUE
       IN Add(NewsAt(d), SumNews(S \ {d}))
GetDailySentimentStats(map) ==
  LET got == DailyFetched(map)
      keys == {KeyOfDate(map, d) : d \in got}
  IN [k \in keys |-> SumNews({d \in got : KeyOfDate(map, d) = k})]

\* ----------------------------------------- get_aggregated_sentiment_stats
RECURSIVE ScanPrev(_, _, _)
ScanPrev(list, i, key) ==
  IF i > Len(list) THEN NoDay
  ELSE IF list[i] = key /\ i > 1 THEN list[i - 1]
  ELSE ScanPrev(list, i + 1, key)
PrevTradingDay(list, key) == ScanPrev(list, 1, key)

RangeStart(list, key) ==
  LET prev == PrevTradingDay(list, key)
  IN IF prev # NoDay THEN prev + 1 ELSE key - Lookback
\* lines 277-285: is d one of the dates from range start through the key
InRange(start, key, d) == start <= d /\ d <= key

\* lines 289-317: labeled records of the relevant dates, counted per date
GetAggregatedSentimentStats(st, h, map) ==
  LET list == TradingDaysList(st, h)
      start == [k \in DOMAIN map |-> RangeStart(list, k)]
      got == IF Len(list) = 0 THEN {}
             ELSE {d \in LabeledDates :
                     \E k \in DOMAIN map : InRange(start[k], k, d)}
  IN [d \in got |-> NewsAt(d)]

\* ------------------------------------------------------ Calendar Provider
\* get_trading_days: session rows having a valid close value, ascending
GetTradingDays(st, ok, h) ==
  HistSeq(h) \o SortedSeq((DOMAIN st \cap ok) \ HistDays(h))

\* aggregate_sentiment_for_trading_days: each counted date is summed onto
\* its Roll-Forward session
AggregateSentimentForTradingDays(st, ok, h, sstats) ==
  LET list == GetTradingDays(st, ok, h)
      tgt == [d \in DOMAIN sstats |->
                IF Len(list) = 0 THEN NoDay ELSE TargetActive(list, d)]
      keys == {tgt[d] : d \in DOMAIN sstats} \ {NoDay}
  IN [k \in keys |-> SumBags(sstats, {d \in DOMAIN sstats : tgt[d] = k})]

\* ------------------------------------- reset_and_aggregate_sentiment_30days
WindowStart == today - WindowDays
InWindow(d) == WindowStart <= d /\ d <= today

\* step 1: labeled news of the window, counted per date
WindowSentimentStats ==
  LET got == {d \in DOMAIN news : InWindow(d) /\ Total(news[d]) > 0}
  IN [d \in got |-> news[d]]
\* step 2: session rows of the window with a close_price, ordered by date
WindowTradingDays(st, ok, h) ==
  SortedSeq({d \in HistDays(h) \cup (DOMAIN st \cap ok) : InWindow(d)})
\* step 3: every session row of the window
WindowRows(st, h) == SortedSeq({d \in DOMAIN st : InWindow(d)})

RECURSIVE Sweep(_, _, _, _, _, _)
Sweep(sstats, dates, days, i, pend, out) ==
  IF i > Len(dates) THEN <<out, pend>>
  ELSE LET d == dates[i]
           p == Add(pend, sstats[d])
       IN IF d \in days
          THEN Sweep(sstats, dates, days, i + 1, Zero, Append(out, <<d, p>>))
          ELSE Sweep(sstats, dates, days, i + 1, p, out)

\* lines 158-183: what is left after the sweep goes to the last trading day
FlushReplaces(out, pend, list) ==
  IF Total(pend) > 0 /\ Len(list) > 0
  THEN LET last == list[Len(list)]
           hit == {i \in 1..Len(out) : out[i][1] = last}
       IN IF hit # {}
          THEN LET i == CHOOSE x \in hit : \A y \in hit : x <= y
               IN [out EXCEPT ![i] = <<last, pend>>]
          ELSE Append(out, <<last, pend>>)
  ELSE out
FlushRemainder(out, pend, list) ==
  IF Total(pend) > 0 /\ Len(list) > 0
  THEN LET last == list[Len(list)]
           hit == {i \in 1..Len(out) : out[i][1] = last}
       IN IF hit # {}
          THEN LET i == CHOOSE x \in hit : \A y \in hit : x <= y
               IN [out EXCEPT ![i] = <<last, Add(out[i][2], pend)>>]
          ELSE Append(out, <<last, pend>>)
  ELSE out

AggregateWindow(sstats, list) ==
  LET days == {list[i] : i \in 1..Len(list)}
      r == Sweep(sstats, SortedSeq(DOMAIN sstats), days, 1, Zero, <<>>)
  IN FlushRemainder(r[1], r[2], list)

\* rows of a sentiment_stats frame, in index order
RowsOf(f) == LET ds == SortedSeq(DOMAIN f) IN [i \in 1..Len(ds) |-> <<ds[i], f[ds[i]]>>]
NoMap == [k \in {} |-> {}]

\* ------------------------------------------------------------------ Init
InitStore ==
  /\ hist \in {0, ActivityThreshold}
  /\ \E rows \in SUBSET WinDates :
       /\ stock = [d \in rows \cup (IF hist > 0 THEN {HistFirst(hist)} ELSE {}) |-> Stale]
       \* at most one row is a forecast row, inserted with close_price ""
       \* for a date after a row that has a close_price
       /\ \E un \in {{}} \cup {{d} : d \in rows} :
            /\ closeOk = DOMAIN stock \ un
            /\ \A d \in un : \E e \in closeOk : e < d
  /\ \E S \in SUBSET NewsDates(hist) :
       /\ Cardinality(S) <= MaxNewsDates
       /\ news = [d \in NewsDates(hist) |-> IF d \in S THEN BagOf(d) ELSE Zero]
  /\ unlabeled \in {NewsThreshold - 4, NewsThreshold - 1}
  /\ today = MaxDay

InitRun ==
  /\ pc = "idle" /\ entry = "none" /\ updated = {} /\ runNo = 1 /\ ret = 0
  /\ mapping = NoMap /\ resolverLow = FALSE /\ isLow = FALSE
  /\ todo = <<>> /\ stats = EmptyMap /\ agg = <<>> /\ tdays = <<>>
  /\ success = FALSE /\ resetSet = {} /\ wrote = {} /\ snap = stock
  /\ stock0 = stock /\ stopped = FALSE /\ touched = FALSE
  /\ countOutcome = "unasked"
  /\ phase = "none" /\ batchMode = "none" /\ pending = <<>>
  /\ stockUpdates = [c \in {} |-> FALSE] /\ processed = {} /\ raised = {}
  /\ fetched = <<>>
  /\ tables = NoTables /\ runs = <<>>

Init == InitStore /\ InitRun

ClearRun ==
  /\ ret' = 0 /\ mapping' = NoMap /\ resolverLow' = FALSE /\ isLow' = FALSE
  /\ todo' = <<>> /\ stats' = EmptyMap /\ agg' = <<>> /\ tdays' = <<>>
  /\ success' = FALSE /\ resetSet' = {} /\ wrote' = {}
  /\ touched' = FALSE /\ countOutcome' = "unasked"

\* --------------------------------- optimized_process_sentiment_to_stock
\* lines 334-336: an empty date set returns 0 before any store access
StartInc ==
  /\ pc = "idle"
  /\ \E dates \in SUBSET DOMAIN news :
       /\ Cardinality(dates) <= MaxUpdated
       /\ updated' = dates
       /\ pc' = IF dates = {} THEN "done" ELSE "resolve"
  /\ entry' = "inc"
  /\ UNCHANGED <<store, runNo, ret, mapping, resolverLow, isLow, todo, stats,
                 agg, tdays, success, resetSet, wrote, snap,
                 stock0, stopped, touched, countOutcome, batch, local, pair>>

\* step 1 (lines 346-351)
Resolve ==
  /\ pc = "resolve"
  /\ mapping' = GetAffectedTradingDays(stock, hist, updated)
  /\ resolverLow' = ResolverLow(stock, hist)
  /\ touched' = TRUE
  /\ pc' = IF DOMAIN mapping' = {} THEN "done" ELSE "select"
  /\ UNCHANGED <<store, entry, updated, runNo, ret, isLow, todo, stats, agg,
                 tdays, success, resetSet, wrote, snap,
                 stock0, stopped, countOutcome, batch, local, pair>>

\* lines 353-366
SelectAtMost(total) == total <= NewsThreshold
IsLowActivity(total) == total < NewsThreshold
\* line 356: a response without a count is taken as 0 records;
\* lines 363-366: a query that raises selects aggregation
TotalNewsOf(outcome) == IF outcome = "count" THEN TotalNews ELSE 0
StrategyOf(outcome) ==
  IF outcome = "raised" THEN FALSE ELSE IsLowActivity(TotalNewsOf(outcome))
SelectWith(outcome) ==
  /\ pc = "select"
  /\ countOutcome' = outcome
  /\ isLow' = StrategyOf(outcome)
  /\ todo' = SortedSeq(DOMAIN mapping)
  /\ pc' = "reset"
  /\ UNCHANGED <<store, entry, updated, runNo, ret, mapping, resolverLow,
                 stats, agg, tdays, success, resetSet, wrote, snap,
                 stock0, stopped, touched, batch, local, pair>>
\* the count query answers with a count
Select == SelectWith("count")
\* the count query answers without a count, or raises
SelectFaulty == \E outcome \in {"none", "raised"} : SelectWith(outcome)

\* step 2: reset_sentiment_for_specific_dates, one key per step
ResetStep ==
  /\ pc = "reset" /\ todo # <<>>
  /\ LET d == Head(todo)
     IN /\ stock' = UpdateIfExists(stock, d, Zero)
        /\ resetSet' = IF RowExists(stock, d) THEN resetSet \cup {d} ELSE resetSet
  /\ todo' = Tail(todo)
  /\ pc' = IF Tail(todo) = <<>> THEN "count" ELSE "reset"
  /\ UNCHANGED <<closeOk, hist, news, unlabeled, today, entry, updated, runNo,
                 ret, mapping, resolverLow, isLow, stats, agg, tdays, success,
                 wrote, snap,
                 stock0, stopped, touched, countOutcome, batch, local, pair>>

\* step 3: get_sentiment_stats_for_affected_dates (lines 371-378)
\* lines 201-227: a query that raises inside the try of one key loses the
\* records of that key, the other keys are still queried
DailySurviving(map, failed) ==
  LET got == {d \in DailyFetched(map) :
                \E k \in DOMAIN map \ failed : d \in map[k]}
      keys == {KeyOfDate(map, d) : d \in got}
  IN [k \in keys |-> SumNews({d \in got : KeyOfDate(map, d) = k})]
\* lines 262-285: the dates of the ranges of all keys
RelevantDates(st, h, map) ==
  LET list == TradingDaysList(st, h)
  IN UNION {RangeStart(list, k)..k : k \in DOMAIN map}
ChunkCount(n, size) == (n + size - 1) \div size
\* lines 289-304: a chunk query that raises loses the dates of that chunk.
\* list(relevant_dates) has no defined order, so with several chunks a chunk
\* can hold any of the labeled dates; a single chunk holds them all, and so
\* does the outer try (lines 253, 319-321) when the calendar query raises.
AggregatedLosses(st, h, map) ==
  LET full == DOMAIN GetAggregatedSentimentStats(st, h, map)
      n == Cardinality(RelevantDates(st, h, map))
  IN IF ChunkCount(n, AggregatedChunk) <= 1 THEN {full}
     ELSE SUBSET full \ {{}}
AggregatedSurviving(st, h, map, lost) ==
  LET full == GetAggregatedSentimentStats(st, h, map)
  IN [d \in DOMAIN full \ lost |-> full[d]]
\* the counts the Counter can return when some query of it raises
FaultyCounts ==
  IF isLow
  THEN {DailySurviving(mapping, failed) : failed \in SUBSET DOMAIN mapping \ {{}}}
  ELSE {AggregatedSurviving(stock, hist, mapping, lost) :
          lost \in AggregatedLosses(stock, hist, mapping)}
FaultFreeCounts ==
  IF isLow THEN GetDailySentimentStats(mapping)
  ELSE GetAggregatedSentimentStats(stock, hist, mapping)

CountStep(counts) ==
  /\ pc = "count"
  /\ stats' = counts
  /\ IF DOMAIN stats' = {}
     THEN pc' = "done" /\ UNCHANGED <<agg, todo>>
     ELSE IF isLow
          THEN pc' = "commit" /\ agg' = RowsOf(stats') /\ todo' = RowsOf(stats')
          ELSE pc' = "aggregate" /\ UNCHANGED <<agg, todo>>
  /\ UNCHANGED <<store, entry, updated, runNo, ret, mapping, resolverLow,
                 isLow, tdays, success, resetSet, wrote, snap,
                 stock0, stopped, touched, countOutcome, batch, local, pair>>
\* every query of the Counter answers
Count == CountStep(FaultFreeCounts)
\* some query of the Counter raises and is caught
CountFaulty == pc = "count" /\ \E counts \in FaultyCounts : CountStep(counts)

\* step 4, active stocks (lines 386-391)
Aggregate ==
  /\ pc = "aggregate"
  /\ LET a == AggregateSentimentForTradingDays(stock, closeOk, hist, stats)
     IN /\ agg' = RowsOf(a)
        /\ todo' = RowsOf(a)
        /\ pc' = IF DOMAIN a = {} THEN "done" ELSE "commit"
  /\ UNCHANGED <<store, entry, updated, runNo, ret, mapping, resolverLow,
                 isLow, stats, tdays, success, resetSet, wrote, snap,
                 stock0, stopped, touched, countOutcome, batch, local, pair>>

CountsVirtual(exists) == 1
\* lines 431-444: updated_count grows for a row that exists, not for a
\* virtual day
CommitCount(exists) == IF exists THEN 1 ELSE 0
\* update_daily_sentiment_stats (lines 421-447), one row per step
UpdateDailySentimentStats ==
  /\ pc = "commit" /\ isLow /\ todo # <<>>
  /\ LET d == Head(todo)[1]
         v == Head(todo)[2]
     IN /\ stock' = UpdateIfExists(stock, d, v)
        /\ wrote' = IF RowExists(stock, d) THEN wrote \cup {d} ELSE wrote
        /\ ret' = ret + CommitCount(RowExists(stock, d))
  /\ todo' = Tail(todo)
  /\ pc' = IF Tail(todo) = <<>> THEN "done" ELSE "commit"
  /\ UNCHANGED <<closeOk, hist, news, unlabeled, today, entry, updated, runNo,
                 mapping, resolverLow, isLow, stats, agg, tdays, success,
                 resetSet, snap,
                 stock0, stopped, touched, countOutcome, batch, local, pair>>

\* update_stock_sentiment_stats(reset_mode=False), one row per step
UpdateStockSentimentStats ==
  /\ pc = "commit" /\ ~isLow /\ todo # <<>>
  /\ LET d == Head(todo)[1]
         v == Head(todo)[2]
     IN /\ stock' = UpdateIfExists(stock, d, v)
        /\ wrote' = IF RowExists(stock, d) THEN wrote \cup {d} ELSE wrote
        /\ ret' = IF RowExists(stock, d) THEN ret + 1 ELSE ret
  /\ todo' = Tail(todo)
  /\ pc' = IF Tail(todo) = <<>> THEN "done" ELSE "commit"
  /\ UNCHANGED <<closeOk, hist, news, unlabeled, today, entry, updated, runNo,
                 mapping, resolverLow, isLow, stats, agg, tdays, success,
                 resetSet, snap,
                 stock0, stopped, touched, countOutcome, batch, local, pair>>

\* ------------------------------------- reset_and_aggregate_sentiment_30days
\* lines 45-47: the window ends at datetime.now().date()
StartFull ==
  /\ pc = "idle"
  /\ entry' = "full"
  /\ pc' = "f_news"
  /\ today' \in {MaxDay, MaxDay + WindowDays - 2}
  /\ UNCHANGED <<stock, closeOk, hist, news, unlabeled, updated, runNo, ret, mapping, resolverLow, isLow, todo,
                 stats, agg, tdays, success, resetSet, wrote, snap,
                 stock0, stopped, touched, countOutcome, batch, local, pair>>

\* step 1 (lines 51-76): no labeled news in the window returns False
FullNews ==
  /\ pc = "f_news"
  /\ stats' = WindowSentimentStats
  /\ touched' = TRUE
  /\ pc' = IF DOMAIN stats' = {} THEN "done" ELSE "f_cal"
  /\ UNCHANGED <<store, entry, updated, runNo, ret, mapping, resolverLow,
                 isLow, todo, agg, tdays, success, resetSet, wrote, snap,
                 stock0, stopped, countOutcome, batch, local, pair>>

\* step 2 (lines 78-91) and the select of step 3 (line 95)
CalendarNeverEmpty(days) == FALSE
\* lines 84-86: no trading day in the window
CalendarEmpty(days) == Len(days) = 0
FullCalendar ==
  /\ pc = "f_cal"
  /\ tdays' = WindowTradingDays(stock, closeOk, hist)
  /\ IF CalendarEmpty(tdays')
     THEN pc' = "done" /\ UNCHANGED todo
     ELSE /\ todo' = WindowRows(stock, hist)
          /\ pc' = IF Len(todo') = 0 THEN "f_agg" ELSE "f_reset"
  /\ UNCHANGED <<store, entry, updated, runNo, ret, mapping, resolverLow,
                 isLow, stats, agg, success, resetSet, wrote, snap,
                 stock0, stopped, touched, countOutcome, batch, local, pair>>

\* step 3 (lines 99-109), one row per step
FullReset ==
  /\ pc = "f_reset" /\ todo # <<>>
  /\ stock' = UpdateCounters(stock, Head(todo), Zero)
  /\ resetSet' = resetSet \cup {Head(todo)}
  /\ todo' = Tail(todo)
  /\ pc' = IF Tail(todo) = <<>> THEN "f_agg" ELSE "f_reset"
  /\ UNCHANGED <<closeOk, hist, news, unlabeled, today, entry, updated, runNo,
                 ret, mapping, resolverLow, isLow, stats, agg, tdays, success,
                 wrote, snap,
                 stock0, stopped, touched, countOutcome, batch, local, pair>>

\* step 4 (lines 113-183)
FullAggregate ==
  /\ pc = "f_agg"
  /\ agg' = AggregateWindow(stats, tdays)
  /\ todo' = agg'
  /\ pc' = IF agg' = <<>> THEN "done" ELSE "f_commit"
  /\ success' = (agg' = <<>>)
  /\ UNCHANGED <<store, entry, updated, runNo, ret, mapping, resolverLow,
                 isLow, stats, tdays, resetSet, wrote, snap,
                 stock0, stopped, touched, countOutcome, batch, local, pair>>

\* step 5 (lines 188-215), one row per step
FullCommit ==
  /\ pc = "f_commit" /\ todo # <<>>
  /\ LET d == Head(todo)[1]
         v == Head(todo)[2]
     IN /\ stock' = UpdateIfExists(stock, d, v)
        /\ wrote' = IF RowExists(stock, d) THEN wrote \cup {d} ELSE wrote
        /\ ret' = IF RowExists(stock, d) THEN ret + 1 ELSE ret
  /\ todo' = Tail(todo)
  /\ pc' = IF Tail(todo) = <<>> THEN "done" ELSE "f_commit"
  /\ success' = (Tail(todo) = <<>>)
  /\ UNCHANGED <<closeOk, hist, news, unlabeled, today, entry, updated, runNo,
                 mapping, resolverLow, isLow, stats, agg, tdays, resetSet, snap,
                 stock0, stopped, touched, countOutcome, batch, local, pair>>

\* The caller runs the same entry point again on the same input.
Restart ==
  /\ runNo' = 2
  /\ snap' = stock
  /\ pc' = IF entry = "full" THEN "f_news"
           ELSE IF updated = {} THEN "done" ELSE "resolve"
  /\ ClearRun
  /\ UNCHANGED <<store, entry, updated, stock0, batch, local, pair>>
Rerun ==
  /\ pc = "done" /\ runNo = 1
  /\ Restart
  /\ UNCHANGED stopped
\* The run stops after its first store write (the exception leaves through
\* the caller's handler, or the process ends) and the caller runs it again.
Stop ==
  /\ runNo = 1 /\ pc \notin {"idle", "done"}
  /\ resetSet \cup wrote # {}
  /\ stopped' = TRUE
  /\ Restart

\* one run of either entry point
Next ==
  \/ StartInc \/ Resolve \/ Select \/ ResetStep \/ Count \/ Aggregate
  \/ UpdateDailySentimentStats \/ UpdateStockSentimentStats
  \/ StartFull \/ FullNews \/ FullCalendar \/ FullReset \/ FullAggregate
  \/ FullCommit

Spec == Init /\ [][Next]_vars

\* a run, stopped or not, followed by a second run on the same input
NextRetry == Next \/ Rerun \/ Stop
SpecRetry == Init /\ [][NextRetry]_vars

\* one run in which the news count query and the Counter's queries can fail
NextFaults == Next \/ SelectFaulty \/ CountFaulty
SpecFaults == Init /\ [][NextFaults]_vars

\* --------------------------------------------- the chunk loops of the Counter
\* The loops of get_daily_sentiment_stats (lines 201-247, chunks of 10 dates
\* of one key) and get_aggregated_sentiment_stats (lines 289-317, chunks of 20
\* relevant dates), on a news table kept as rows <<date, sentiment>>.
RECURSIVE Repeat(_, _)
Repeat(x, n) == IF n = 0 THEN <<>> ELSE <<x>> \o Repeat(x, n - 1)
\* the labeled rows of the news table for one date
RecordsOf(d) ==
  Repeat(<<d, "Positive">>, news[d][1]) \o Repeat(<<d, "Negative">>, news[d][2])
    \o Repeat(<<d, "Neutral">>, news[d][3])
RECURSIVE RecordsOfAll(_)
RecordsOfAll(ds) ==
  IF ds = <<>> THEN <<>> ELSE RecordsOf(Head(ds)) \o RecordsOfAll(Tail(ds))
\* .eq("date", chunk[0]): the labeled rows of that date
QueryEq(d) == IF d \in DOMAIN news THEN RecordsOf(d) ELSE <<>>
\* .in_("date", chunk): the labeled rows whose date is one of the chunk
QueryIn(chunk) ==
  RecordsOfAll(SortedSeq({d \in DOMAIN news : \E i \in DOMAIN chunk : chunk[i] = d}))
QueryChunk(chunk) ==
  IF Len(chunk) = 1 THEN QueryEq(chunk[1]) ELSE QueryIn(chunk)
SliceEnd(list, i, size) == IF i * size < Len(list) THEN i * size ELSE Len(list)
ChunksOverlapping(list, size) ==
  [i \in 1..ChunkCount(Len(list), size) |->
     SubSeq(list, IF i = 1 THEN 1 ELSE (i - 1) * size, SliceEnd(list, i, size))]
\* [list[i:i+size] for i in range(0, len(list), size)]
Chunks(list, size) ==
  [i \in 1..ChunkCount(Len(list), size) |->
     SubSeq(list, (i - 1) * size + 1, SliceEnd(list, i, size))]
Reverse(list) == [i \in 1..Len(list) |-> list[Len(list) + 1 - i]]
\* value_counts().unstack(fill_value=0).reindex(columns=[...], fill_value=0)
CountLabel(recs, ds, label) ==
  Cardinality({i \in DOMAIN recs : recs[i][1] \in ds /\ recs[i][2] = label})
LabelCounts(recs, ds) ==
  <<CountLabel(recs, ds, "Positive"), CountLabel(recs, ds, "Negative"),
    CountLabel(recs, ds, "Neutral")>>
\* groupby('date')
GroupByDate(recs) ==
  [d \in {recs[i][1] : i \in DOMAIN recs} |-> LabelCounts(recs, {d})]
\* line 236 and groupby('trading_day')
GroupByTradingDay(map, recs) ==
  LET ds == {recs[i][1] : i \in DOMAIN recs}
  IN [k \in {KeyOfDate(map, d) : d \in ds} |->
        LabelCounts(recs, {d \in ds : KeyOfDate(map, d) = k})]

\* the news table: dates 0..MaxChunkDates + 1, labeled records on every
\* m-th date; the dates 1..n are queried, under one key in Daily counting
ChunkBag(d) == <<1 + (d % 2), d % 3, 0>>
InitChunks ==
  /\ \E m \in 1..3 : \E r \in 0..(m - 1) :
       news = [d \in 0..(MaxChunkDates + 1) |->
                 IF d % m = r THEN ChunkBag(d) ELSE Zero]
  /\ \E n \in 0..MaxChunkDates :
       /\ updated = 1..n
       /\ mapping = IF n = 0 THEN NoMap ELSE [k \in {n} |-> 1..n]
  /\ isLow \in BOOLEAN
  /\ resolverLow = isLow
  /\ stock = [d \in {} |-> Zero] /\ closeOk = {} /\ hist = 0
  /\ unlabeled = 0 /\ today = MaxChunkDates + 1
  /\ pc = "split" /\ entry = "inc" /\ runNo = 1 /\ ret = 0
  /\ todo = <<>> /\ stats = EmptyMap /\ agg = <<>> /\ tdays = <<>>
  /\ success = FALSE /\ resetSet = {} /\ wrote = {} /\ snap = stock
  /\ stock0 = stock /\ stopped = FALSE /\ touched = FALSE
  /\ countOutcome = "unasked"
  /\ phase = "none" /\ batchMode = "none" /\ pending = <<>>
  /\ stockUpdates = [c \in {} |-> FALSE] /\ processed = {} /\ raised = {}
  /\ fetched = <<>>
  /\ tables = NoTables /\ runs = <<>>
\* lines 203 and 291: the date list, in the order the set happens to give
Split ==
  /\ pc = "split"
  /\ \E list \in {SortedSeq(updated), Reverse(SortedSeq(updated))} :
       todo' = Chunks(list, IF isLow THEN DailyChunk ELSE AggregatedChunk)
  /\ pc' = "chunks"
  /\ UNCHANGED <<store, entry, updated, runNo, ret, mapping, resolverLow,
                 isLow, stats, agg, tdays, success, resetSet, wrote, snap,
                 stock0, stopped, touched, countOutcome, batch, local, pair>>
\* lines 206-214 and 293-302: one chunk query, its rows appended
ChunkQuery ==
  /\ pc = "chunks" /\ todo # <<>>
  /\ fetched' = fetched \o QueryChunk(Head(todo))
  /\ todo' = Tail(todo)
  /\ UNCHANGED <<store, pc, entry, updated, runNo, ret, mapping, resolverLow,
                 isLow, stats, agg, tdays, success, resetSet, wrote, snap,
                 stock0, stopped, touched, countOutcome, batch, pair>>
\* lines 229-247 and 306-317
GroupCounts ==
  /\ pc = "chunks" /\ todo = <<>>
  /\ stats' = IF isLow THEN GroupByTradingDay(mapping, fetched)
               ELSE GroupByDate(fetched)
  /\ pc' = "grouped"
  /\ UNCHANGED <<store, entry, updated, runNo, ret, mapping, resolverLow,
                 isLow, todo, agg, tdays, success, resetSet, wrote, snap,
                 stock0, stopped, touched, countOutcome, batch, local, pair>>
NextChunks == Split \/ ChunkQuery \/ GroupCounts
SpecChunks == InitChunks /\ [][NextChunks]_vars

\* ------------------------------------------------------ two concurrent runs
\* Two runs, each of one stock code and one entry point, take their store
\* operations in any order.  Each run works on the tables named after its
\* code (lines 338-339; 30-day lines 42-43).  The two codes' tables hold the
\* same news and session rows, so the runs differ only in the table they use.
StockTableShared(code) == "FPT_Stock"
StockTable(code) == code \o "_Stock"
\* the keys a run resets, from the session table st
IncrementalKeys(st) ==
  SortedSeq(DOMAIN GetAffectedTradingDays(st, hist, updated))
WindowReturnsEarly(st) ==
  DOMAIN WindowSentimentStats = {} \/ Len(WindowTradingDays(st, closeOk, hist)) = 0
\* the rows a run commits
IncrementalRows(st) ==
  LET map == GetAffectedTradingDays(st, hist, updated)
      low == StrategyOf("count")
      sstats == IF low THEN GetDailySentimentStats(map)
                ELSE GetAggregatedSentimentStats(st, hist, map)
  IN IF DOMAIN sstats = {} THEN <<>>
     ELSE IF low THEN RowsOf(sstats)
     ELSE RowsOf(AggregateSentimentForTradingDays(st, closeOk, hist, sstats))
WindowCommits(st) ==
  AggregateWindow(WindowSentimentStats, WindowTradingDays(st, closeOk, hist))
TableOf(r) == tables[StockTable(runs[r].code)]
\* is the other run between its first and its last store operation
OtherRunning(r) == runs[3 - r].pc \in {"reset", "query", "commit"}
\* the reads before the reset: the early returns, then the keys to reset
PairStart(r) ==
  /\ runs[r].pc = "idle"
  /\ LET st == TableOf(r)
         early == IF runs[r].entry = "full" THEN WindowReturnsEarly(st)
                  ELSE updated = {} \/ IncrementalKeys(st) = <<>>
         keys == IF runs[r].entry = "full" THEN WindowRows(st, hist)
                 ELSE IncrementalKeys(st)
     IN runs' = [runs EXCEPT ![r].pc = IF early THEN "done"
                                       ELSE IF keys = <<>> THEN "query" ELSE "reset",
                             ![r].todo = IF early THEN <<>> ELSE keys]
  /\ UNCHANGED <<engine, batch, local, tables>>
PairReset(r) ==
  /\ runs[r].pc = "reset"
  /\ tables' = [tables EXCEPT ![StockTable(runs[r].code)] =
                  UpdateIfExists(@, Head(runs[r].todo), Zero)]
  /\ runs' = [runs EXCEPT ![r].todo = Tail(@),
                          ![r].pc = IF Tail(runs[r].todo) = <<>> THEN "query" ELSE "reset",
                          ![r].mixed = @ \/ OtherRunning(r)]
  /\ UNCHANGED <<engine, batch, local>>
\* the reads after the reset: counting and aggregation
PairQuery(r) ==
  /\ runs[r].pc = "query"
  /\ LET rows == IF runs[r].entry = "full" THEN WindowCommits(TableOf(r))
                 ELSE IncrementalRows(TableOf(r))
     IN runs' = [runs EXCEPT ![r].todo = rows,
                             ![r].pc = IF rows = <<>> THEN "done" ELSE "commit"]
  /\ UNCHANGED <<engine, batch, local, tables>>
PairCommit(r) ==
  /\ runs[r].pc = "commit"
  /\ tables' = [tables EXCEPT ![StockTable(runs[r].code)] =
                  UpdateIfExists(@, Head(runs[r].todo)[1], Head(runs[r].todo)[2])]
  /\ runs' = [runs EXCEPT ![r].todo = Tail(@),
                          ![r].pc = IF Tail(runs[r].todo) = <<>> THEN "done" ELSE "commit",
                          ![r].mixed = @ \/ OtherRunning(r)]
  /\ UNCHANGED <<engine, batch, local>>
PairCodes == <<"FPT", "GAS">>
InitPair ==
  /\ InitStore /\ closeOk = DOMAIN stock /\ unlabeled = NewsThreshold - 4
  /\ pc = "idle" /\ entry = "none" /\ runNo = 1 /\ ret = 0
  /\ mapping = NoMap /\ resolverLow = FALSE /\ isLow = FALSE
  /\ todo = <<>> /\ stats = EmptyMap /\ agg = <<>> /\ tdays = <<>>
  /\ success = FALSE /\ resetSet = {} /\ wrote = {} /\ snap = stock
  /\ stock0 = stock /\ stopped = FALSE /\ touched = FALSE
  /\ countOutcome = "unasked"
  /\ phase = "none" /\ batchMode = "none" /\ pending = <<>>
  /\ stockUpdates = [c \in {} |-> FALSE] /\ processed = {} /\ raised = {}
  /\ fetched = <<>>
  /\ tables = [t \in {"FPT_Stock", "GAS_Stock"} |-> stock]
  /\ \E c \in {1, 2} : \E e \in {"inc", "full"} :
       \* updated_dates is an input of the incremental entry point only
       /\ \E dates \in SUBSET DOMAIN news :
            /\ Cardinality(dates) <= MaxUpdated
            /\ (dates = {}) = (e = "full")
            /\ updated = dates
       /\ runs = [r \in {1, 2} |->
                 [code |-> IF r = 1 THEN PairCodes[1] ELSE PairCodes[c],
                  entry |-> e, pc |-> "idle", todo |-> <<>>, mixed |-> FALSE]]
NextPair ==
  \E r \in {1, 2} : PairStart(r) \/ PairReset(r) \/ PairQuery(r) \/ PairCommit(r)
SpecPair == InitPair /\ [][NextPair]_vars

\* ------------------------------------------- run_sentiment_phase (main.py)
\* The batch over the stock codes.  The run of one code is the machine above;
\* the batch keeps of it only that it was called and whether it raised.
Codes == <<"FPT", "GAS", "IMP", "VCB">>
RECURSIVE Keep(_, _)
Keep(seq, S) ==
  IF seq = <<>> THEN <<>>
  ELSE IF Head(seq) \in S THEN <<Head(seq)>> \o Keep(Tail(seq), S)
  ELSE Keep(Tail(seq), S)
\* phase 2 visits the fixed list (line 307) or stock_updates.items() (line 361)
UpdateOrder(mode, su) == IF mode = "30day" THEN Codes ELSE Keep(Codes, DOMAIN su)

BatchStart ==
  /\ phase = "none" /\ pc = "idle"
  /\ batchMode' \in {"30day", "optimized"}
  /\ phase' = "predict"
  /\ pending' = Codes
  /\ UNCHANGED <<engine, local, pair, stockUpdates, processed, raised>>

\* phase 1 (lines 288-301, 339-351): a table whose prediction raises leaves
\* no entry in stock_updates
Predict ==
  /\ phase = "predict" /\ pending # <<>>
  /\ \E outcome \in {"dates", "nodates", "raised"} :
       stockUpdates' =
         IF outcome = "raised" THEN stockUpdates
         ELSE [c \in DOMAIN stockUpdates \cup {Head(pending)} |->
                 IF c = Head(pending) THEN outcome = "dates" ELSE stockUpdates[c]]
  /\ IF Tail(pending) = <<>>
     THEN phase' = "update" /\ pending' = UpdateOrder(batchMode, stockUpdates')
     ELSE phase' = "predict" /\ pending' = Tail(pending)
  /\ UNCHANGED <<engine, local, pair, batchMode, processed, raised>>

HasUpdates(c) == c \in DOMAIN stockUpdates /\ stockUpdates[c]
Closing(rest) == IF rest = <<>> THEN "closed" ELSE "update"

LoopAborts(rest, outcome) == IF outcome = "raised" THEN <<>> ELSE rest
\* lines 310-314, 363-366: the exception is logged and the loop goes on
AfterRun(rest, outcome) == rest
\* the 30-day run catches every exception itself and returns False
\* (reset_aggregate_sentiment_30days.py lines 217-221)
RunOutcomes(mode) ==
  IF mode = "30day" THEN {"returned"} ELSE {"returned", "raised"}
\* phase 2, a code with newly predicted dates: its run is called
BatchRun ==
  /\ phase = "update" /\ pending # <<>> /\ HasUpdates(Head(pending))
  /\ \E outcome \in RunOutcomes(batchMode) :
       /\ processed' = processed \cup {Head(pending)}
       /\ raised' = IF outcome = "raised" THEN raised \cup {Head(pending)} ELSE raised
       /\ pending' = AfterRun(Tail(pending), outcome)
  /\ phase' = Closing(pending')
  /\ UNCHANGED <<engine, local, pair, batchMode, stockUpdates>>
\* phase 2, a code without newly predicted dates is skipped (lines 315-316, 367-368)
BatchSkip ==
  /\ phase = "update" /\ pending # <<>> /\ ~HasUpdates(Head(pending))
  /\ pending' = Tail(pending)
  /\ phase' = Closing(pending')
  /\ UNCHANGED <<engine, local, pair, batchMode, stockUpdates, processed, raised>>

NextBatch == BatchStart \/ Predict \/ BatchRun \/ BatchSkip
\* the batch is followed from one store: its steps do not read the store
InitBatch ==
  /\ Init /\ hist = 0 /\ DOMAIN stock = {} /\ LabeledDates = {}
  /\ unlabeled = NewsThreshold - 1
SpecBatch == InitBatch /\ [][NextBatch]_vars

\* ----------------------------------------------------------- properties
AfterResolve == entry = "inc" /\ pc \in {"select", "reset", "count", "aggregate", "commit"}
AfterSelect == entry = "inc" /\ pc \in {"reset", "count", "aggregate", "commit"}
FullDone == pc = "done" /\ entry = "full" /\ success
SetMin(S) == CHOOSE x \in S : \A y \in S : x <= y
SetMax(S) == CHOOSE x \in S : \A y \in S : x >= y
Geq(a, b) == a[1] >= b[1] /\ a[2] >= b[2] /\ a[3] >= b[3]
SessionDays == TradingDaysSet(stock, hist)
WindowSessions == {d \in DOMAIN stock \cap closeOk : InWindow(d)}
Consecutive(S, P, T) == P \in S /\ T \in S /\ P < T /\ ~(\E x \in S : P < x /\ x < T)
SpanCount(P, T) == SumNews({d \in DOMAIN news : P < d /\ d <= T})

\* C1: a second run of the same entry point on the same input, with news and
\* calendar unchanged, leaves every session's counters as the first run left them.
C1_Idempotent == (pc = "done" /\ runNo = 2 /\ ~stopped) => stock = snap
C1_Witness ==
  /\ pc = "done" /\ runNo = 2 /\ ~stopped /\ wrote # {} /\ stock = snap
  /\ \E d \in wrote : stock[d] # Zero

\* C2: after a Roll-Forward run, each targeted session T with previous session P
\* holds exactly the labeled news dated in the span P + 1 .. T.
C2_Conservation ==
  /\ FullDone =>
       \A P \in WindowSessions, T \in WindowSessions :
         Consecutive(WindowSessions, P, T) => stock[T] = SpanCount(P, T)
  /\ (pc = "done" /\ entry = "inc" /\ ~isLow /\ ~resolverLow
        /\ DOMAIN mapping # {}) =>
       \A T \in DOMAIN mapping \cap DOMAIN stock : \A P \in SessionDays :
         Consecutive(SessionDays, P, T) => stock[T] = SpanCount(P, T)

C4_StrategyBoundary ==
  AfterSelect =>
    /\ isLow <=> TotalNews <= 49
    /\ ~isLow <=> TotalNews >= 50
C4_Witness == AfterSelect /\ TotalNews = 50 /\ ~isLow

\* C5: within one incremental run the Resolver and the Counter/Aggregator work
\* in the same mode.
C5_SameMode == AfterSelect => (resolverLow = isLow)

\* C6: under the Daily strategy the counts aggregated under key D are the
\* labeled news dated exactly D.
C6_DailyPassthrough ==
  (entry = "inc" /\ isLow /\ pc \in {"commit", "done"}) =>
    \A D \in DOMAIN stats : stats[D] = NewsAt(D)

\* C7: the Roll-Forward Resolver maps a news date to itself when it is a
\* trading day, else to the smallest later trading day, else to the latest
\* trading day (stated on the mapping as Resolve returns it).
RollForwardSession(d) ==
  IF d \in SessionDays THEN d
  ELSE IF \E t \in SessionDays : t > d
       THEN SetMin({t \in SessionDays : t > d})
       ELSE SetMax(SessionDays)
C8_TailOverflow ==
  /\ (pc = "done" /\ entry = "inc" /\ ~isLow /\ ~resolverLow
        /\ DOMAIN mapping # {} /\ DOMAIN stock # {}) =>
       LET latest == SetMax(DOMAIN stock)
       IN Geq(stock[latest], SumNews({d \in updated : d > latest}))
  /\ FullDone =>
       LET latest == SetMax(WindowSessions)
       IN Geq(stock[latest], SumNews({d \in DOMAIN news : InWindow(d) /\ d > latest}))

\* C9 (as claimed): news dated before the earliest session is mapped to no
\* session and is part of no session's committed counts.
C9_EarlyNewsDropped ==
  /\ AfterResolve =>
       \A d \in updated : d < SetMin(SessionDays) =>
         \A k \in DOMAIN mapping : d \notin mapping[k]
  /\ FullDone =>
       \A T \in WindowSessions : \A S \in SUBSET LabeledDates :
         SumNews(S) = stock[T] => \A d \in S : d >= SetMin(WindowSessions)
\* C9 (amended): news dated before the earliest session is rolled forward: the
\* Roll-Forward Resolver maps it to the earliest session, and the 30-day
\* reconciliation counts it, when in the window, on a session of the window.
C9_EarlyNewsRolledForward ==
  /\ (AfterResolve /\ ~resolverLow) =>
       LET first == SetMin(SessionDays)
       IN \A d \in updated : d < first =>
            first \in DOMAIN mapping /\ d \in mapping[first]
  /\ FullDone =>
       \A d \in LabeledDates : (InWindow(d) /\ d < SetMin(WindowSessions)) =>
         \E T \in WindowSessions : \E S \in SUBSET LabeledDates :
           d \in S /\ SumNews(S) = stock[T]
C9_Witness ==
  /\ AfterResolve /\ ~resolverLow
  /\ \E d \in updated : d < SetMin(SessionDays) /\ d \in mapping[SetMin(SessionDays)]

\* C10: after a run of the 30-day reconciliation, every session row of the
\* window holds either zero or the counts this run wrote to it.
C10_NoOrphanedCounts ==
  (pc = "done" /\ entry = "full") =>
    \A T \in DOMAIN stock : InWindow(T) => (stock[T] = Zero \/ T \in wrote)

RECURSIVE ResetAll(_, _)
ResetAll(st, keys) ==
  IF keys = <<>> THEN st
  ELSE ResetAll(UpdateIfExists(st, Head(keys), Zero), Tail(keys))
RECURSIVE WriteAll(_, _)
WriteAll(st, rows) ==
  IF rows = <<>> THEN st
  ELSE WriteAll(UpdateIfExists(st, Head(rows)[1], Head(rows)[2]), Tail(rows))
\* the counters one complete incremental run leaves, from counters st
IncrementalRun(st) ==
  LET map == GetAffectedTradingDays(st, hist, updated)
      low == StrategyOf("count")
      sstats == IF low THEN GetDailySentimentStats(map)
                ELSE GetAggregatedSentimentStats(st, hist, map)
      rows == IF DOMAIN sstats = {} THEN <<>>
              ELSE IF low THEN RowsOf(sstats)
              ELSE RowsOf(AggregateSentimentForTradingDays(st, closeOk, hist, sstats))
  IN IF updated = {} \/ DOMAIN map = {} THEN st
     ELSE WriteAll(ResetAll(st, SortedSeq(DOMAIN map)), rows)
\* the counters one complete 30-day reconciliation leaves, from counters st
WindowRun(st) ==
  LET sstats == WindowSentimentStats
      days == WindowTradingDays(st, closeOk, hist)
  IN IF DOMAIN sstats = {} \/ Len(days) = 0 THEN st
     ELSE WriteAll(ResetAll(st, WindowRows(st, hist)), AggregateWindow(sstats, days))
UninterruptedRun(st) == IF entry = "full" THEN WindowRun(st) ELSE IncrementalRun(st)
C13_Retryable ==
  (pc = "done" /\ (runNo = 1 \/ stopped)) => stock = UninterruptedRun(stock0)
C13_Witness ==
  /\ pc = "done" /\ stopped /\ wrote # {} /\ stock # stock0
  /\ \E d \in resetSet : stock[d] # Zero

\* C14: every key of the AffectedSessionMap is the date of a trading session,
\* or, in a run that uses the Daily strategy only, one of the news dates.
TradingSessions == HistDays(hist) \cup (DOMAIN stock \cap closeOk)
C14_KeysAreSessions ==
  AfterSelect =>
    \A k \in DOMAIN mapping : k \in TradingSessions \/ (isLow /\ k \in updated)

\* C15: when no trading session is found, incremental_update returns 0,
\* the 30-day reconciliation returns without success, and neither run goes
\* on to reset or write a session row.
C15_NoSessionsShortCircuit ==
  /\ (entry = "inc" /\ SessionDays = {}) =>
       /\ pc \in {"resolve", "done"} /\ ret = 0
       /\ stock = snap /\ resetSet = {} /\ wrote = {}
  /\ (entry = "full" /\ WindowSessions = {}) =>
       /\ pc \in {"f_news", "f_cal", "done"} /\ ~success
       /\ stock = snap /\ resetSet = {} /\ wrote = {}
C15_Witness ==
  /\ entry = "full" /\ pc = "done" /\ DOMAIN stats # {}
  /\ WindowSessions = {} /\ \E d \in DOMAIN stock : InWindow(d)

\* C16: when the run of one stock code raises, the batch still calls the run
\* of every later code that has newly predicted dates.
C16_BatchContinues ==
  /\ phase = "closed" => processed = {c \in DOMAIN stockUpdates : stockUpdates[c]}
  /\ raised \subseteq processed
  /\ \A i \in 1..Len(pending) : pending[i] \notin processed
C16_Witness ==
  /\ phase = "closed" /\ "FPT" \in raised
  /\ "VCB" \in processed /\ "GAS" \notin processed

\* C17: when the news count cannot be determined (the query raises or
\* answers without a count) the selector picks Roll-Forward, never Daily.
C17_DefaultsToRollForward ==
  (AfterSelect /\ countOutcome \in {"none", "raised"}) => ~isLow

\* C18: the trading-day sequence each entry point works with holds exactly
\* the dates of the session rows that have a valid close value (for the
\* 30-day reconciliation: those of the window), ascending, none twice.
Ascending(list) == \A i \in 1..(Len(list) - 1) : list[i] < list[i + 1]
ListsExactly(list, S) == {list[i] : i \in 1..Len(list)} = S /\ Ascending(list)
C18_TradingDaySequence ==
  /\ (entry = "inc" /\ pc = "select") =>
       ListsExactly(TradingDaysList(stock, hist), TradingSessions)
  /\ (entry = "full" /\ pc \in {"f_reset", "f_agg", "f_commit"}) =>
       ListsExactly(tdays, {d \in TradingSessions : InWindow(d)})

\* C19: incremental_update returns the number of session rows it committed
\* with aggregated counts; it returns 0 for an empty date set, when no session
\* is affected and when no labeled news is found, and with an empty date set
\* it does not query the store.
Committed == {d \in DOMAIN stock : \E i \in 1..Len(agg) : agg[i][1] = d}
C19_ReturnsCommittedCount ==
  (entry = "inc" /\ pc = "done") =>
    /\ ret = Cardinality(Committed)
    /\ \A i \in 1..Len(agg) :
         agg[i][1] \in DOMAIN stock => stock[agg[i][1]] = agg[i][2]
    /\ updated = {} => (ret = 0 /\ ~touched /\ stock = snap)
    /\ DOMAIN mapping = {} => ret = 0
    /\ DOMAIN stats = {} => ret = 0
C19_Witness ==
  /\ entry = "inc" /\ pc = "done" /\ isLow /\ ret = 1
  /\ \E i \in 1..Len(agg) : agg[i][1] \notin DOMAIN stock

\* C20: in Roll-Forward mode the Sentiment Counter queries exactly the dates
\* from the day after the previous trading day of an affected session T
\* through T, or from T - 7 through T when T has no previous trading session:
\* the counted dates are the labeled dates of these ranges.
SpanStart(T) ==
  LET before == {t \in TradingSessions : t < T}
  IN IF before # {} THEN SetMax(before) + 1 ELSE T - Lookback
QueriedDates ==
  {d \in LabeledDates : \E T \in DOMAIN mapping : SpanStart(T) <= d /\ d <= T}
C20_QueryRanges ==
  (entry = "inc" /\ ~isLow /\ pc \in {"aggregate", "commit"}) =>
    DOMAIN stats = QueriedDates

\* C21: once the Sentiment Counter has run, the labeled records of every news
\* date listed under a key of the AffectedSessionMap are in its counts.
Counted ==
  entry = "inc" /\ DOMAIN mapping # {} /\ pc \in {"aggregate", "commit", "done"}
MappedDates == UNION {mapping[k] : k \in DOMAIN mapping}
C21_MappedDatesCounted ==
  Counted =>
    IF isLow
    THEN SumBags(stats, DOMAIN stats) = SumNews(MappedDates)
    ELSE \A d \in MappedDates \cap LabeledDates : d \in DOMAIN stats

\* C22: a session that an incremental Roll-Forward run commits, that the
\* 30-day reconciliation targets too and whose span lies inside the window,
\* gets the same counters from both entry points.
SpanInWindow(T) == T \in WindowSessions /\ WindowStart <= SpanStart(T)
C22_EntryPointsAgree ==
  (entry = "inc" /\ pc = "done" /\ ~isLow) =>
    \A T \in wrote : SpanInWindow(T) => stock[T] = WindowRun(stock0)[T]

\* C23: when a query of the Sentiment Counter fails, the failure is caught and
\* no session ends the run reset to zero, or with a partial count, while
\* labeled news mapped to it exists.
QueryFailed == Counted /\ stats # FaultFreeCounts
C23_NoFabricatedZero ==
  (pc = "done" /\ QueryFailed) =>
    \A k \in resetSet : Geq(stock[k], SumNews(mapping[k]))

\* C24: the counts of the Sentiment Counter do not depend on how the dates
\* are split into chunks: every labeled record of a queried date is counted
\* exactly once, whether its chunk is one date (equality filter) or several
\* (set-membership filter), and a label without record counts 0.
QueriedLabeled == {d \in updated : Total(news[d]) > 0}
C24_ChunkingNeutral ==
  pc = "grouped" =>
    IF isLow
    THEN stats = [k \in {KeyOfDate(mapping, d) : d \in QueriedLabeled} |->
                    SumNews(QueriedLabeled)]
    ELSE stats = [d \in QueriedLabeled |-> news[d]]
C24_Witness ==
  /\ pc = "grouped" /\ isLow
  /\ Cardinality(updated) = DailyChunk + 1
  /\ Total(news[1]) > 0 /\ Total(news[DailyChunk + 1]) > 0
  /\ \E k \in DOMAIN stats : stats[k][1] > DailyChunk /\ stats[k][3] = 0

\* C25: two runs for different instruments, their store operations taken in
\* any order, leave each instrument's counters as its run alone leaves them.
BothDone == runs # <<>> /\ \A r \in {1, 2} : runs[r].pc = "done"
AloneRun(r) ==
  IF runs[r].entry = "full" THEN WindowRun(stock) ELSE IncrementalRun(stock)
C25_InstrumentsIndependent ==
  (BothDone /\ runs[1].code = "FPT" /\ runs[2].code = "GAS") =>
    tables["FPT_Stock"] = AloneRun(1) /\ tables["GAS_Stock"] = AloneRun(2)
C25_Witness ==
  /\ BothDone /\ runs[1].code = "FPT" /\ runs[2].code = "GAS"
  /\ runs[1].mixed /\ runs[2].mixed
  /\ \E d \in DOMAIN stock : tables["FPT_Stock"][d] \notin {Zero, Stale}
  /\ \E d \in DOMAIN stock : tables["GAS_Stock"][d] \notin {Zero, Stale}

\* C30: two runs of the same entry point on the same instrument with the same
\* inputs, their store operations taken in any order, end with the session
\* counters one run alone leaves.
C30_SameInstrumentConverges ==
  (BothDone /\ runs[1].code = runs[2].code) =>
    tables["FPT_Stock"] = AloneRun(1) /\ tables["GAS_Stock"] = stock
C30_Witness ==
  /\ BothDone /\ runs[1].code = runs[2].code
  /\ runs[1].mixed /\ runs[2].mixed
  /\ \E d \in DOMAIN stock : TableOf(1)[d] \notin {Zero, Stale}
  /\ \E d \in DOMAIN stock : TableOf(1)[d] = Zero

\* C26: with a non-empty session calendar the Resolver, in both modes, lists
\* every input news date under exactly one key: the lists partition the input
\* dates and no date is dropped as too old.
\* the session table has a row (the older rows include one row of the table)
Resolved == entry = "inc" /\ touched /\ DOMAIN stock # {}
C26_MappingPartitions ==
  Resolved =>
    /\ MappedDates = updated
    /\ \A j, k \in DOMAIN mapping : j # k => mapping[j] \cap mapping[k] = {}
C26_Witness ==
  /\ Resolved /\ ~resolverLow /\ pc = "select"
  /\ \E d, e \in updated :
       /\ d < SetMin(SessionDays) /\ e > SetMax(SessionDays)
       /\ \E j, k \in DOMAIN mapping : j # k /\ d \in mapping[j] /\ e \in mapping[k]

\* C27: after a completed 30-day reconciliation (at least one trading session
\* and one labeled record in the window), for each label the committed
\* counters of the sessions of the window sum to the number of records of the
\* window with that label.
WindowRowSet == {d \in DOMAIN stock : InWindow(d)}
C27_WindowConservation ==
  FullDone =>
    SumBags(stock, WindowRowSet) = SumNews({d \in DOMAIN news : InWindow(d)})
C27_Witness ==
  /\ FullDone
  /\ \E T \in WindowSessions : \E d, e \in LabeledDates :
       /\ d = T /\ e > T /\ InWindow(e)
       /\ stock[T] = Add(news[d], news[e])

\* C28: when the Sentiment Counter of an incremental run returns no counts
\* (no labeled news on any queried date, or every query failed), the run
\* returns 0 after the reset: every affected session that has a row is left
\* at (0,0,0) and nothing is committed.
NothingCounted ==
  entry = "inc" /\ pc = "done" /\ DOMAIN mapping # {} /\ DOMAIN stats = {}
C28_ResetOnlyWhenNothingCounted ==
  NothingCounted =>
    /\ ret = 0 /\ wrote = {}
    /\ \A k \in DOMAIN mapping \cap DOMAIN stock : stock[k] = Zero
    /\ \A d \in DOMAIN stock \ DOMAIN mapping : stock[d] = stock0[d]
C28_Witness ==
  /\ NothingCounted /\ QueryFailed
  /\ \E k \in DOMAIN mapping \cap DOMAIN stock : stock0[k] # Zero /\ stock[k] = Zero

\* C29: the committed counters are assigned, not added: a run of the Daily
\* incremental path or of the 30-day reconciliation from a store that differs
\* only in the prior counter values commits the same counters on every
\* session this run commits.
OtherCounters ==
  {[d \in DOMAIN stock0 |-> v] : v \in {Zero, <<7, 0, 3>>}}
    \cup {[d \in DOMAIN stock0 |-> IF d >= 1 THEN <<0, 4, 0>> ELSE <<9, 9, 9>>]}
C29_AssignedNotAdded ==
  (pc = "done" /\ (FullDone \/ (entry = "inc" /\ isLow))) =>
    \A other \in OtherCounters : \A T \in wrote :
      stock[T] = UninterruptedRun(other)[T]
C29_Witness ==
  /\ pc = "done" /\ entry = "inc" /\ isLow
  /\ \E T \in wrote : stock0[T] # Zero /\ stock[T] = news[T] /\ Total(news[T]) > 0

====
